---- MODULE Spec2Model ----
(***************************************************************************)
(* Model of haruhi: the lazy URL parse of a RequestContext (src/proc.rs),  *)
(* the Ok/Err result pipeline of ResultContextBundle (src/proc.rs) and     *)
(* the route dispatch of RouteMatchGroup (src/route.rs).                   *)
(*                                                                         *)
(* A string is a sequence of one-character strings.  Option<T> is a        *)
(* sequence of length 0 (None) or 1 (Some(x)), so Some("") differs from    *)
(* None.  A StrRef is modelled by the text it points at: it always points  *)
(* into original_url, which is never modified.                             *)
(***************************************************************************)
EXTENDS Integers, Sequences, FiniteSets, TLC

VARIABLES
    original_url,   \* UrlInfo.original_url
    parse_mutex,    \* UrlInfo.parse_mutex: 0 when free, else the holding thread
    params,         \* UrlInfo.params   (Cell<Vec<Param>>)
    path,           \* UrlInfo.path     (Cell<Option<StrRef>>)
    parts,          \* UrlInfo.parts    (Cell<Vec<StrRef>>)
    pc,             \* per thread: position inside the accessor being run
    op,             \* per thread: the accessor being run
    ret,            \* per thread: what the last accessor returned
    calls,          \* number of accessor calls started so far
    bundle,         \* the ResultContextBundle owned by the pipeline
    log,            \* the exec / apply calls made by the last pipeline operation
    apply_ok,       \* ResultContext::apply of this run: which (result, update) give Ok
    last,           \* the last pipeline operation: its arguments, the bundle it was called on
    arr,            \* RouteMatchGroup.arr
    req,            \* the request handed to handle_for
    found           \* the outcome of handle_for

urlVars == <<original_url, parse_mutex, params, path, parts, pc, op, ret, calls>>
pipeVars == <<bundle, log, apply_ok, last>>
routeVars == <<arr, req, found>>
vars == <<urlVars, pipeVars, routeVars>>

----------------------------------------------------------------------------
(* Bounds *)

MaxLen == 3
NThreads == 2
MaxCalls == 3
NResults == 2
NUpdates == 2
MaxRoutes == 2

----------------------------------------------------------------------------
(* Strings and options *)

None == <<>>
Some(x) == <<x>>

Chars == {"/", "?", "=", "a"}

RECURSIVE StrsOfLen(_)
StrsOfLen(n) ==
    IF n = 0 THEN {<<>>}
    ELSE {Append(s, c) : s \in StrsOfLen(n - 1), c \in Chars}

\* The example URLs of the documentation.
UrlAdminNew ==
    <<"/","a","d","m","i","n","/","n","e","w","?","q","=",
      "s","o","m","e","t","h","i","n","g">>
UrlEqValue == <<"/","x","?","=","v","a","l","u","e">>
UrlFlag == <<"/","x","?","f","l","a","g">>
UrlMultiEq == <<"/","x","?","a","=","b","=","c">>

ExampleUrls == {UrlAdminNew, UrlEqValue, UrlFlag, UrlMultiEq}

Urls == UNION {StrsOfLen(n) : n \in 0..MaxLen} \cup ExampleUrls

\* The URLs of the requests that several threads share.
ConcUrls == {<<>>, <<"/">>, <<"/", "a", "?", "=", "a">>, UrlAdminNew}

\* Index of the first occurrence of c in s, 0 when there is none.
RECURSIVE FindFrom(_, _, _)
FindFrom(s, c, i) ==
    IF i > Len(s) THEN 0
    ELSE IF s[i] = c THEN i
    ELSE FindFrom(s, c, i + 1)

Find(s, c) == FindFrom(s, c, 1)

\* str::split(c): the pieces between every occurrence of c, empty ones kept;
\* a string without c (the empty string too) gives one piece.
RECURSIVE Split(_, _)
Split(s, c) ==
    LET i == Find(s, c) IN
    IF i = 0 THEN <<s>>
    ELSE <<SubSeq(s, 1, i - 1)>> \o Split(SubSeq(s, i + 1, Len(s)), c)

\* Iterator::next() on the pieces still to come.
Next1(it) == IF Len(it) = 0 THEN None ELSE Some(Head(it))
Rest(it) == IF Len(it) = 0 THEN it ELSE Tail(it)

----------------------------------------------------------------------------
(* UrlInfo::lazy_parse, the computation of lines 118..149 *)

\* Faulty variant: the empty piece before a leading '/' is left out.
ParseParts_skip_leading(url) ==
    LET pieces == Split(url, "/") IN
    IF Len(pieces) > 1 /\ pieces[1] = <<>> THEN Tail(pieces) ELSE pieces

\* let parts = original_url.split('/') collected
ParseParts(url) == Split(url, "/")

\* let last = parts.last().unwrap()
LastPart(url) == ParseParts(url)[Len(ParseParts(url))]

\* let path = last.split('?').next().unwrap()
ParsePath(url) == Head(Split(LastPart(url), "?"))

\* Faulty variant: the value is taken whether or not the token holds a '='.
ParseParam_value_always(part) ==
    LET starts_with_eq == Len(part) > 0 /\ part[1] = "="
        split == Split(part, "=")
    IN  IF starts_with_eq
        THEN [name |-> None, value |-> Next1(split)]
        ELSE [name |-> Next1(split), value |-> Some(Head(Rest(split) \o <<<<>>>>))]

\* One parameter token, the body of the for loop.
ParseParam(part) ==
    LET starts_with_eq == Len(part) > 0 /\ part[1] = "="
        split == Split(part, "=")
    IN  IF starts_with_eq
        THEN [name |-> None, value |-> Next1(split)]
        ELSE [name |-> Next1(split), value |-> Next1(Rest(split))]

\* let params = the tokens after the first piece of last.split('?')
ParseParams(url) ==
    LET tokens == Tail(Split(LastPart(url), "?"))
    IN  [i \in 1..Len(tokens) |-> ParseParam(tokens[i])]

\* The locals params, path and parts of lazy_parse before its three set()
\* calls, for every URL a request is built from.
Parsed ==
    [url \in Urls \cup ConcUrls |->
        [params |-> ParseParams(url), path |-> ParsePath(url), parts |-> ParseParts(url)]]

----------------------------------------------------------------------------
(* The URL accessors run by concurrent threads on one RequestContext *)

Threads == 1..NThreads

\* The operations of RequestContext and UrlInfo a thread may call.
Accessors == {"params", "parts", "path"}
Triggers == {"parse_if_needed", "lazy_parse"}

NoRet == [kind |-> "none"]

\* UrlInfo::is_lazy_parsed
is_lazy_parsed == path # None

\* A thread calls params(), parts(), path(), parse_if_needed() or lazy_parse().
Call(t, o) ==
    /\ pc[t] \in {"idle", "done"}
    /\ calls < MaxCalls
    /\ calls' = calls + 1
    /\ op' = [op EXCEPT ![t] = o]
    /\ ret' = [ret EXCEPT ![t] = NoRet]
    /\ pc' = [pc EXCEPT ![t] = IF o = "lazy_parse" THEN "lazy_parse" ELSE "check"]
    /\ UNCHANGED <<original_url, parse_mutex, params, path, parts, pipeVars, routeVars>>

\* UrlInfo::parse_if_needed: the unlocked test of path.
parse_if_needed(t) ==
    /\ pc[t] = "check"
    /\ pc' = [pc EXCEPT ![t] = IF ~is_lazy_parsed THEN "lazy_parse" ELSE "read"]
    /\ UNCHANGED <<original_url, parse_mutex, params, path, parts, op, ret, calls, pipeVars, routeVars>>

\* UrlInfo::lazy_parse, entry: nothing to parse in an empty URL.
lazy_parse(t) ==
    /\ pc[t] = "lazy_parse"
    /\ pc' = [pc EXCEPT ![t] = IF Len(original_url) = 0 THEN "read" ELSE "lock"]
    /\ UNCHANGED <<original_url, parse_mutex, params, path, parts, op, ret, calls, pipeVars, routeVars>>

\* Faulty variant: the parse body is entered without waiting for the mutex.
Lock_unguarded(t) ==
    /\ pc[t] = "lock"
    /\ parse_mutex' = t
    /\ pc' = [pc EXCEPT ![t] = "set_params"]
    /\ UNCHANGED <<original_url, params, path, parts, op, ret, calls, pipeVars, routeVars>>

\* let _lock = self.parse_mutex.lock().unwrap(): blocks while another thread holds it.
Lock(t) ==
    /\ pc[t] = "lock"
    /\ parse_mutex = 0
    /\ parse_mutex' = t
    /\ pc' = [pc EXCEPT ![t] = "set_params"]
    /\ UNCHANGED <<original_url, params, path, parts, op, ret, calls, pipeVars, routeVars>>

\* Faulty variant: the parameters are pushed onto the Vec already in the cell.
SetParams_append(t) ==
    /\ pc[t] = "set_params"
    /\ params' = params \o Parsed[original_url].params
    /\ pc' = [pc EXCEPT ![t] = "set_path"]
    /\ UNCHANGED <<original_url, parse_mutex, path, parts, op, ret, calls, pipeVars, routeVars>>

\* self.params.set(params)
SetParams(t) ==
    /\ pc[t] = "set_params"
    /\ params' = Parsed[original_url].params
    /\ pc' = [pc EXCEPT ![t] = "set_path"]
    /\ UNCHANGED <<original_url, parse_mutex, path, parts, op, ret, calls, pipeVars, routeVars>>

\* self.path.set(Some(path))
SetPath(t) ==
    /\ pc[t] = "set_path"
    /\ path' = Some(Parsed[original_url].path)
    /\ pc' = [pc EXCEPT ![t] = "set_parts"]
    /\ UNCHANGED <<original_url, parse_mutex, params, parts, op, ret, calls, pipeVars, routeVars>>

\* self.parts.set(parts)
SetParts(t) ==
    /\ pc[t] = "set_parts"
    /\ parts' = Parsed[original_url].parts
    /\ pc' = [pc EXCEPT ![t] = "unlock"]
    /\ UNCHANGED <<original_url, parse_mutex, params, path, op, ret, calls, pipeVars, routeVars>>

\* Faulty variant: lazy_parse ends with the mutex still held.
Unlock_leak(t) ==
    /\ pc[t] = "unlock"
    /\ pc' = [pc EXCEPT ![t] = "read"]
    /\ UNCHANGED <<original_url, parse_mutex, params, path, parts, op, ret, calls, pipeVars, routeVars>>

\* End of lazy_parse: _lock is dropped.
Unlock(t) ==
    /\ pc[t] = "unlock"
    /\ parse_mutex' = 0
    /\ pc' = [pc EXCEPT ![t] = "read"]
    /\ UNCHANGED <<original_url, params, path, parts, op, ret, calls, pipeVars, routeVars>>

\* What the accessor hands back after parse_if_needed: params() and parts()
\* the Vec in the cell, path() the unwrapped option, which panics on None.
Read(t) ==
    /\ pc[t] = "read"
    /\ IF op[t] = "path" /\ path = None
       THEN /\ pc' = [pc EXCEPT ![t] = "panicked"]
            /\ ret' = ret
       ELSE /\ pc' = [pc EXCEPT ![t] = "done"]
            /\ ret' = [ret EXCEPT ![t] =
                    CASE op[t] = "params" -> [kind |-> "params", val |-> params]
                      [] op[t] = "parts" -> [kind |-> "parts", val |-> parts]
                      [] op[t] = "path" -> [kind |-> "path", val |-> path[1]]
                      [] OTHER -> [kind |-> "unit"]]
    /\ UNCHANGED <<original_url, parse_mutex, params, path, parts, op, calls, pipeVars, routeVars>>

----------------------------------------------------------------------------
(* A RequestContext used by one owner at a time (inside a bundle, or handed *)
(* to handle_for): the accessors run from start to end.                     *)

NewRequest(url) ==
    [original_url |-> url, params |-> <<>>, path |-> None, parts |-> <<>>]

\* UrlInfo::parse_if_needed followed by UrlInfo::lazy_parse, run alone.
RequestParsed(r) ==
    IF r.path # None THEN r
    ELSE IF Len(r.original_url) = 0 THEN r
    ELSE [r EXCEPT !.params = ParseParams(r.original_url),
                   !.path = Some(ParsePath(r.original_url)),
                   !.parts = ParseParts(r.original_url)]

\* RequestContext::path: None when the unwrap of the path option panics.
RequestPath(r) == RequestParsed(r).path

----------------------------------------------------------------------------
(* ResultContextBundle and its pipeline operations *)

Results == 0..(NResults - 1)
Updates == 0..(NUpdates - 1)

\* A Process: exec reads the context and gives an Update (here the value it
\* reads shifted by k); it holds the context by shared reference, through
\* which it can only run the accessors of the request (touch: it calls
\* request.params()).
Procs == [k : Updates, touch : BOOLEAN]

PipeUrls == {<<>>, <<"/", "a">>}

Ok(result, request) == [tag |-> "Ok", result |-> result, request |-> request]
Err(result, request) == [tag |-> "Err", result |-> result, request |-> request]
ContextBundle(of, result, request) ==
    [tag |-> "ContextBundle", of |-> of, result |-> result, request |-> request]
Panic(msg) == [tag |-> "Panic", msg |-> msg]

\* An operation's outcome: the bundle it leaves and the exec / apply calls made.
St(b, l) == [bundle |-> b, log |-> l]

Live(b) == b.tag \in {"Ok", "Err"}

is_ok(b) == b.tag = "Ok"

is_err(b) == ~is_ok(b)

\* ResultContextBundle::unwrap
unwrap(b) ==
    IF b.tag = "Ok" THEN ContextBundle("Ok", b.result, b.request)
    ELSE Panic("fail_err_unwrap")

\* Faulty variant: unwrap_err without the test of the variant.
unwrap_err_unchecked(b) == ContextBundle("Err", b.result, b.request)

\* ResultContextBundle::unwrap_err
unwrap_err(b) ==
    IF b.tag = "Err" THEN ContextBundle("Err", b.result, b.request)
    ELSE Panic("fail_unwrap_err_on_good")

\* ResultContextBundle::err: the reference to the Err value, or a panic.
err(b) ==
    IF b.tag = "Err" THEN [tag |-> "Ref", result |-> b.result]
    ELSE Panic("fail_err_unwrap")

\* The implementations of ResultContext::apply a run may have: whether an
\* update applied to an Ok value, or to an Err value, gives Ok.
ApplyTabs == [{"Ok", "Err"} \X Updates -> BOOLEAN]

\* ResultContext::apply, as this run's implementation decides it: the next
\* value, in the Ok type or in the Err type.
apply(tab, kind, result, update) ==
    [ok |-> tab[<<kind, update>>],
     result |-> (result * NUpdates + update + 1) % NResults]

\* Process::exec on a context: the update, and the request after the
\* process has read it.
exec(p, c) ==
    [update |-> (c.result + p.k) % NUpdates,
     request |-> IF p.touch THEN RequestParsed(c.request) ELSE c.request]

ExecCall(who, c, u) == [call |-> "exec", who |-> who, kind |-> c.of, on |-> c.result, out |-> u]
ApplyCall(kind, result, u) == [call |-> "apply", kind |-> kind, on |-> result, update |-> u]

\* Faulty variant: amend with the two arms of the match exchanged.
amend_swapped(tab, s, u) ==
    IF s.bundle.tag = "Err"
    THEN LET a == apply(tab, "Err", s.bundle.result, u)
             l == Append(s.log, ApplyCall("Err", s.bundle.result, u))
         IN  IF a.ok THEN St(Err(a.result, s.bundle.request), l)
             ELSE St(Ok(a.result, s.bundle.request), l)
    ELSE St(Panic("fail_fix_good"), s.log)

\* ResultContextBundle::amend on St(b, l)
amend(tab, s, u) ==
    IF s.bundle.tag = "Err"
    THEN LET a == apply(tab, "Err", s.bundle.result, u)
             l == Append(s.log, ApplyCall("Err", s.bundle.result, u))
         IN  IF a.ok THEN St(Ok(a.result, s.bundle.request), l)
             ELSE St(Err(a.result, s.bundle.request), l)
    ELSE St(Panic("fail_fix_good"), s.log)

\* Faulty variant: exec_over with the two arms of the match exchanged.
exec_over_swapped(tab, p, c, l) ==
    LET e == exec(p, c)
        a == apply(tab, c.of, c.result, e.update)
        l2 == l \o <<ExecCall("process", c, e.update), ApplyCall(c.of, c.result, e.update)>>
    IN  IF a.ok THEN St(Err(a.result, e.request), l2)
        ELSE St(Ok(a.result, e.request), l2)

\* Process::exec_over on the unwrapped context c
exec_over(tab, p, c, l) ==
    LET e == exec(p, c)
        a == apply(tab, c.of, c.result, e.update)
        l2 == l \o <<ExecCall("process", c, e.update), ApplyCall(c.of, c.result, e.update)>>
    IN  IF a.ok THEN St(Ok(a.result, e.request), l2)
        ELSE St(Err(a.result, e.request), l2)

\* ResultContextBundle::update
update(tab, s, p) ==
    LET c == unwrap(s.bundle) IN
    IF c.tag = "Panic" THEN St(c, s.log)
    ELSE exec_over(tab, p, c, s.log)

\* Faulty variant: fix that runs the fixer before it tests the variant.
fix_exec_first(tab, s, f) ==
    LET b == s.bundle
        e == exec(f, ContextBundle(b.tag, b.result, b.request))
        l == Append(s.log, ExecCall("fix", ContextBundle(b.tag, b.result, b.request), e.update))
        c == unwrap_err(b)
    IN  IF c.tag = "Panic" THEN St(c, l)
        ELSE amend(tab, St(Err(c.result, e.request), l), e.update)

\* ResultContextBundle::fix
fix(tab, s, f) ==
    LET c == unwrap_err(s.bundle) IN
    IF c.tag = "Panic" THEN St(c, s.log)
    ELSE LET e == exec(f, c)
             update_context == Err(c.result, e.request)
         IN  amend(tab, St(update_context, Append(s.log, ExecCall("fix", c, e.update))),
                   e.update)

\* Faulty variant: continue_or_fix that never runs the fixer.
continue_or_fix_never(tab, s, f) == s

\* Faulty variant: continue_or_fix that runs the fixer whatever the variant.
continue_or_fix_always(tab, s, f) == fix(tab, s, f)

\* ResultContextBundle::continue_or_fix
continue_or_fix(tab, s, f) ==
    IF is_err(s.bundle) THEN fix(tab, s, f) ELSE s

\* Faulty variant: update_fixed that runs the process before the fixer.
update_fixed_process_first(tab, s, p, f) ==
    LET s1 == update(tab, s, p) IN
    IF s1.bundle.tag = "Panic" THEN s1
    ELSE continue_or_fix(tab, s1, f)

\* ResultContextBundle::update_fixed
update_fixed(tab, s, p, f) ==
    LET s1 == continue_or_fix(tab, s, f) IN
    IF s1.bundle.tag = "Panic" THEN s1
    ELSE update(tab, s1, p)

----------------------------------------------------------------------------
(* The pipeline as a state machine: one operation of the bundle per step *)

NoArg == [k |-> 0, touch |-> FALSE]

Op(name, p, f, u, out) ==
    [op |-> name, p |-> p, f |-> f, u |-> u, out |-> out, before |-> bundle]

\* An operation needs a bundle: after unwrap, unwrap_err or a panic the
\* caller holds none.
CanStep == Live(bundle)

Update(p) ==
    /\ CanStep
    /\ LET s == update(apply_ok, St(bundle, <<>>), p) IN
       /\ bundle' = s.bundle
       /\ log' = s.log
    /\ last' = Op("update", p, NoArg, 0, NoRet)
    /\ UNCHANGED <<apply_ok, urlVars, routeVars>>

Fix(f) ==
    /\ CanStep
    /\ LET s == fix(apply_ok, St(bundle, <<>>), f) IN
       /\ bundle' = s.bundle
       /\ log' = s.log
    /\ last' = Op("fix", NoArg, f, 0, NoRet)
    /\ UNCHANGED <<apply_ok, urlVars, routeVars>>

ContinueOrFix(f) ==
    /\ CanStep
    /\ LET s == continue_or_fix(apply_ok, St(bundle, <<>>), f) IN
       /\ bundle' = s.bundle
       /\ log' = s.log
    /\ last' = Op("continue_or_fix", NoArg, f, 0, NoRet)
    /\ UNCHANGED <<apply_ok, urlVars, routeVars>>

UpdateFixed(p, f) ==
    /\ CanStep
    /\ LET s == update_fixed(apply_ok, St(bundle, <<>>), p, f) IN
       /\ bundle' = s.bundle
       /\ log' = s.log
    /\ last' = Op("update_fixed", p, f, 0, NoRet)
    /\ UNCHANGED <<apply_ok, urlVars, routeVars>>

Amend(u) ==
    /\ CanStep
    /\ LET s == amend(apply_ok, St(bundle, <<>>), u) IN
       /\ bundle' = s.bundle
       /\ log' = s.log
    /\ last' = Op("amend", NoArg, NoArg, u, NoRet)
    /\ UNCHANGED <<apply_ok, urlVars, routeVars>>

\* unwrap consumes the bundle: what is left is the ContextBundle, or the panic.
Unwrap ==
    /\ CanStep
    /\ bundle' = unwrap(bundle)
    /\ log' = <<>>
    /\ last' = Op("unwrap", NoArg, NoArg, 0, NoRet)
    /\ UNCHANGED <<apply_ok, urlVars, routeVars>>

UnwrapErr ==
    /\ CanStep
    /\ bundle' = unwrap_err(bundle)
    /\ log' = <<>>
    /\ last' = Op("unwrap_err", NoArg, NoArg, 0, NoRet)
    /\ UNCHANGED <<apply_ok, urlVars, routeVars>>

\* err borrows the bundle: it stays as it is unless the call panics.
ErrRef ==
    /\ CanStep
    /\ LET r == err(bundle) IN
       /\ bundle' = IF r.tag = "Panic" THEN r ELSE bundle
       /\ last' = Op("err", NoArg, NoArg, 0, r)
    /\ log' = <<>>
    /\ UNCHANGED <<apply_ok, urlVars, routeVars>>

----------------------------------------------------------------------------
(* RouteMatchGroup::handle_for *)

UrlAB == <<"/", "a", "/", "b">>

RouteUrls == UNION {StrsOfLen(n) : n \in 0..MaxLen} \cup {UrlAB}

\* The regex engine is outside the repository.  A pattern here is a literal
\* text, and Regex::is_match, which searches anywhere in the text, holds when
\* the text contains it: <<"/", "a">> matches what the regex /a.* matches.
Patterns == {<<"a">>, <<"/", "a">>, UrlAB, <<"=">>}

is_match(regex, text) ==
    \E i \in 1..(Len(text) - Len(regex) + 1) :
        SubSeq(text, i, i + Len(regex) - 1) = regex

\* The route lists: the handle of the i-th RouteMatch is named i.
RouteLists ==
    UNION {[1..n -> Patterns] : n \in 0..MaxRoutes}

RouteMatch(regexes) ==
    [i \in 1..Len(regexes) |-> [regex |-> regexes[i], handle |-> i]]

NoHandle == [kind |-> "None"]
SomeHandle(h) == [kind |-> "Some", handle |-> h]
RoutePanic == [kind |-> "Panic"]

\* The loop of handle_for from the i-th RouteMatch on: req.path() is called
\* in every iteration.
RECURSIVE handle_for_from(_, _, _)
handle_for_from(a, r, i) ==
    IF i > Len(a) THEN NoHandle
    ELSE LET url == RequestPath(r) IN
         IF url = None THEN RoutePanic
         ELSE IF is_match(a[i].regex, url[1]) THEN SomeHandle(a[i].handle)
         ELSE handle_for_from(a, RequestParsed(r), i + 1)

handle_for(a, r) == handle_for_from(a, r, 1)

HandleFor ==
    /\ found.kind = "pending"
    /\ found' = handle_for(arr, req)
    /\ req' = RequestParsed(req)
    /\ UNCHANGED <<arr, urlVars, pipeVars>>

----------------------------------------------------------------------------
(* Specifications *)

NoThreads == [t \in Threads |-> "idle"]

UrlIdle ==
    /\ original_url = <<>>
    /\ parse_mutex = 0
    /\ params = <<>>
    /\ path = None
    /\ parts = <<>>
    /\ pc = NoThreads
    /\ op = [t \in Threads |-> "none"]
    /\ ret = [t \in Threads |-> NoRet]
    /\ calls = 0

PipeIdle ==
    /\ bundle = [tag |-> "None"]
    /\ log = <<>>
    /\ apply_ok = <<>>
    /\ last = [op |-> "none"]

RouteIdle ==
    /\ arr = <<>>
    /\ req = NewRequest(<<>>)
    /\ found = [kind |-> "none"]

\* A RequestContext shared by the threads: nothing is parsed at construction.
Init ==
    /\ original_url \in ConcUrls
    /\ parse_mutex = 0
    /\ params = <<>>
    /\ path = None
    /\ parts = <<>>
    /\ pc = NoThreads
    /\ op = [t \in Threads |-> "none"]
    /\ ret = [t \in Threads |-> NoRet]
    /\ calls = 0
    /\ PipeIdle
    /\ RouteIdle

\* One step of thread t, which may call the operations ops.
Step(t, ops) ==
    \/ \E o \in ops : Call(t, o)
    \/ parse_if_needed(t)
    \/ lazy_parse(t)
    \/ Lock(t)
    \/ SetParams(t)
    \/ SetPath(t)
    \/ SetParts(t)
    \/ Unlock(t)
    \/ Read(t)

\* Threads sharing the RequestContext through its public accessors.
Next == \E t \in Threads : Step(t, Accessors)

Spec == Init /\ [][Next]_vars

\* A thread that has entered an accessor keeps running: every step inside a
\* call is taken once it stays possible.  Whether a thread makes a further
\* call is left open.
Inside(t) ==
    \/ parse_if_needed(t)
    \/ lazy_parse(t)
    \/ Lock(t)
    \/ SetParams(t)
    \/ SetPath(t)
    \/ SetParts(t)
    \/ Unlock(t)
    \/ Read(t)

SpecFair == Spec /\ \A t \in Threads : WF_vars(Inside(t))

\* A RequestContext with one owner; code of the crate may also call the two
\* parse triggers of UrlInfo.
InitSeq ==
    /\ original_url \in Urls
    /\ parse_mutex = 0
    /\ params = <<>>
    /\ path = None
    /\ parts = <<>>
    /\ pc = NoThreads
    /\ op = [t \in Threads |-> "none"]
    /\ ret = [t \in Threads |-> NoRet]
    /\ calls = 0
    /\ PipeIdle
    /\ RouteIdle

NextSeq == Step(1, Accessors \cup Triggers)

SpecSeq == InitSeq /\ [][NextSeq]_vars

\* A pipeline that starts from a bundle in either state.
InitPipe ==
    /\ \E tag \in {"Ok", "Err"}, r \in Results, u \in PipeUrls, parsed \in BOOLEAN :
          bundle = [tag |-> tag, result |-> r,
                    request |-> IF parsed THEN RequestParsed(NewRequest(u))
                                ELSE NewRequest(u)]
    /\ log = <<>>
    /\ apply_ok \in ApplyTabs
    /\ last = [op |-> "none"]
    /\ UrlIdle
    /\ RouteIdle

NextPipe ==
    \/ \E p \in Procs : Update(p)
    \/ \E f \in Procs : Fix(f)
    \/ \E f \in Procs : ContinueOrFix(f)
    \/ \E p \in Procs, f \in Procs : UpdateFixed(p, f)
    \/ \E u \in Updates : Amend(u)
    \/ Unwrap
    \/ UnwrapErr
    \/ ErrRef

SpecPipe == InitPipe /\ [][NextPipe]_vars

\* A route list and a fresh request.
InitRoute ==
    /\ \E regexes \in RouteLists : arr = RouteMatch(regexes)
    /\ \E u \in RouteUrls : req = NewRequest(u)
    /\ found = [kind |-> "pending"]
    /\ UrlIdle
    /\ PipeIdle

NextRoute == HandleFor

SpecRoute == InitRoute /\ [][NextRoute]_vars

----------------------------------------------------------------------------
(* Properties of the lazy parse under concurrent accessors *)

AllUncomputed == path = None /\ parts = <<>> /\ params = <<>>

FullyComputed ==
    /\ path = Some(ParsePath(original_url))
    /\ parts = ParseParts(original_url)
    /\ params = ParseParams(original_url)

Returns(t) == pc[t] = "read" /\ pc'[t] = "done"

Writes(t) == pc[t] \in {"set_params", "set_path", "set_parts"} /\ pc'[t] # pc[t]

\* C1: with a non-empty URL, an accessor returns only while path, parts and
\* params are all uncomputed or all computed, never while they are partly
\* written.
C1_NoPartialRead ==
    [][\A t \in Threads :
          (Len(original_url) > 0 /\ Returns(t)) => (AllUncomputed \/ FullyComputed)]_vars

\* C2: the derived fields are written once: no thread writes params, path or
\* parts once the first parse has completed, in particular not a caller that
\* waited for the lock.
C2_ParsedOnce ==
    [][\A t \in Threads : Writes(t) => ~FullyComputed]_vars

----------------------------------------------------------------------------
(* Properties of the parse result *)

\* The text of a URL before its query string.
BeforeQuery(url) ==
    IF Find(url, "?") = 0 THEN url ELSE SubSeq(url, 1, Find(url, "?") - 1)

\* The raw parameter tokens of a URL.
Tokens(url) == Tail(Split(LastPart(url), "?"))

Returned(t, o) == pc[t] = "done" /\ op[t] = o

\* C8: path() returns the original URL without its query string: every
\* leading path segment is part of it.
C8_PathIsUrlBeforeQuery ==
    \A t \in Threads : Returned(t, "path") => ret[t].val = BeforeQuery(original_url)

\* C9: a parameter token that starts with '=' (and holds no other '=') gives
\* a Param without name whose value is the text after that '='.
C9_LeadingEqValue ==
    \A t \in Threads :
        Returned(t, "params") =>
            \A i \in 1..Len(Tokens(original_url)) :
                LET token == Tokens(original_url)[i] IN
                (Len(token) > 0 /\ token[1] = "=" /\ Find(Tail(token), "=") = 0) =>
                    /\ Len(ret[t].val) = Len(Tokens(original_url))
                    /\ ret[t].val[i] = [name |-> None, value |-> Some(Tail(token))]

\* C10: with an empty original URL no accessor panics, and each returns an
\* empty value.
C10_EmptyUrlNoPanic ==
    Len(original_url) = 0 =>
        \A t \in Threads :
            /\ pc[t] # "panicked"
            /\ (pc[t] = "done" /\ op[t] \in Accessors) => ret[t].val = <<>>

\* The thread is in the parse body of lazy_parse, after the lock() of line 116.
InBody(t) == pc[t] \in {"set_params", "set_path", "set_parts", "unlock"}

\* C18: at most one thread is inside the parse body, and a thread that writes
\* params, path or parts holds parse_mutex.
C18_ParseMutualExclusion ==
    /\ Cardinality({t \in Threads : InBody(t)}) <= 1
    /\ \A t \in Threads : InBody(t) => parse_mutex = t

\* One thread is writing while another waits for the lock.
C18_Witness ==
    \E t, w \in Threads : pc[t] = "set_path" /\ pc[w] = "lock"

\* C19: with a non-empty URL every accessor call returns, and a caller that
\* makes its test once the parse has completed returns without taking the
\* lock.
C19_AccessorsReturn ==
    /\ \A t \in Threads :
          (Len(original_url) > 0 /\ pc[t] = "check") ~> (pc[t] = "done")
    /\ [][\A t \in Threads :
            (FullyComputed /\ pc[t] = "check" /\ pc'[t] # pc[t]) => pc'[t] = "read"]_vars

\* Every thread has returned from a call on a parsed non-empty URL, one of
\* them after waiting for the lock to be released.
C19_Witness ==
    /\ Len(original_url) > 0
    /\ \A t \in Threads : pc[t] = "done"
    /\ parse_mutex = 0
    /\ FullyComputed

\* The parse has completed: every call on a non-empty URL completes it, and
\* on an empty URL there is nothing to parse.
ParseCompleted ==
    IF Len(original_url) = 0 THEN AllUncomputed ELSE FullyComputed

\* C11: parsing is idempotent: once the first parse has completed, no further
\* parse_if_needed(), lazy_parse(), path(), parts() or params() call changes
\* path, parts or params, and what the accessors return is the parse result.
C11_ParseIdempotent ==
    [][ParseCompleted =>
          /\ params' = params /\ path' = path /\ parts' = parts
          /\ \A t \in Threads :
                (pc'[t] = "done" /\ op'[t] \in Accessors) =>
                    ret'[t].val = (CASE op'[t] = "params" -> params
                                     [] op'[t] = "parts" -> parts
                                     [] op'[t] = "path" -> path[1])]_vars

\* lazy_parse was forced again after an earlier call had parsed the URL.
C11_Witness ==
    /\ Len(original_url) > 0
    /\ calls >= 2
    /\ op[1] = "lazy_parse"
    /\ pc[1] = "done"

\* The text of a token before its first '=' (the whole token without one),
\* and the text after it.
BeforeEq(token) ==
    IF Find(token, "=") = 0 THEN token ELSE SubSeq(token, 1, Find(token, "=") - 1)

AfterEq(token) == SubSeq(token, Find(token, "=") + 1, Len(token))

\* The number of occurrences of c in s.
Count(s, c) == Cardinality({i \in 1..Len(s) : s[i] = c})

\* The pieces joined again with c between them.
RECURSIVE Join(_, _)
Join(pieces, c) ==
    IF Len(pieces) = 0 THEN <<>>
    ELSE IF Len(pieces) = 1 THEN pieces[1]
    ELSE pieces[1] \o <<c>> \o Join(Tail(pieces), c)

\* C12: in a token with more than one '=' only the first is the boundary:
\* name is the text before it and value the whole remainder, so that name,
\* '=' and value give the token back.
C12_MultiEqKeepsRemainder ==
    \A t \in Threads :
        Returned(t, "params") =>
            \A i \in 1..Len(Tokens(original_url)) :
                LET token == Tokens(original_url)[i] IN
                (Count(token, "=") > 1 /\ token[1] # "=") =>
                    /\ ret[t].val[i].name = Some(BeforeEq(token))
                    /\ ret[t].val[i].value = Some(AfterEq(token))
                    /\ ret[t].val[i].name[1] \o <<"=">> \o ret[t].val[i].value[1] = token

\* C13: for a token that does not start with '=' the name is the text before
\* the first '=' (the whole token without one) and the value is present
\* exactly when the token holds a '='; "/x?flag" and
\* "/admin/new?q=something" give the parameters of the documentation.
C13_NameAndValuePresence ==
    \A t \in Threads :
        Returned(t, "params") =>
            /\ Len(ret[t].val) = Len(Tokens(original_url))
            /\ \A i \in 1..Len(Tokens(original_url)) :
                  LET token == Tokens(original_url)[i] IN
                  (Len(token) = 0 \/ token[1] # "=") =>
                      /\ ret[t].val[i].name = Some(BeforeEq(token))
                      /\ (ret[t].val[i].value # None) <=> (Find(token, "=") # 0)
            /\ original_url = UrlFlag =>
                  ret[t].val = <<[name |-> Some(<<"f","l","a","g">>), value |-> None]>>
            /\ original_url = UrlAdminNew =>
                  ret[t].val = <<[name |-> Some(<<"q">>),
                                  value |-> Some(<<"s","o","m","e","t","h","i","n","g">>)]>>

C13_Witness == Returned(1, "params") /\ original_url = UrlFlag

\* C17: for a non-empty URL parts() is the split of the whole URL on '/':
\* one segment more than the URL has '/' characters, empty pieces kept, and
\* the segments joined with '/' are the URL.
C17_PartsIsSlashSplit ==
    \A t \in Threads :
        (Returned(t, "parts") /\ Len(original_url) > 0) =>
            /\ Len(ret[t].val) = Count(original_url, "/") + 1
            /\ Join(ret[t].val, "/") = original_url
            /\ \A i \in 1..Len(ret[t].val) : Count(ret[t].val[i], "/") = 0

\* parts() returned for a URL that starts and ends with '/'.
C17_Witness ==
    /\ Returned(1, "parts")
    /\ Len(original_url) > 1
    /\ original_url[1] = "/"
    /\ original_url[Len(original_url)] = "/"
    /\ ret[1].val[1] = <<>>

----------------------------------------------------------------------------
(* Properties of the pipeline *)

Did(name, tag) == last.op = name /\ last.before.tag = tag

\* An operation was invoked on the variant it is not defined on.
WrongVariant ==
    \/ Did("update", "Err")
    \/ Did("unwrap", "Err")
    \/ Did("fix", "Ok")
    \/ Did("amend", "Ok")
    \/ Did("err", "Ok")
    \/ Did("unwrap_err", "Ok")

\* C3: update or unwrap on an Err bundle, and fix, amend, err or unwrap_err
\* on an Ok bundle, end in a panic: no bundle, value or reference comes back,
\* and the bundle is not handed on as it was.
C3_WrongVariantPanics ==
    WrongVariant =>
        /\ bundle.tag = "Panic"
        /\ last.op = "err" => last.out.tag = "Panic"

C3_Witness == Did("fix", "Ok") /\ bundle.tag = "Panic"

\* fix(f) followed by update(p): the second call is made on what the first
\* returned, if it returned.
FixThenUpdate(tab, s, p, f) ==
    LET s1 == fix(tab, s, f) IN
    IF s1.bundle.tag = "Panic" THEN s1 ELSE update(tab, s1, p)

\* C4: on an Err bundle update_fixed(p, f) ends as fix(f) followed by
\* update(p) does: the same exec and apply calls, the same final bundle or
\* the same panic.
C4_UpdateFixedIsFixThenUpdate ==
    Did("update_fixed", "Err") =>
        St(bundle, log) = FixThenUpdate(apply_ok, St(last.before, <<>>), last.p, last.f)

\* The fixer recovered the bundle and the process then ran on it.
C4_Witness ==
    /\ Did("update_fixed", "Err")
    /\ Live(bundle)
    /\ Len(log) = 4

\* C5: continue_or_fix on an Ok bundle returns the bundle as it was, and
\* neither exec nor apply is called.
C5_ContinueOnOkIsIdentity ==
    Did("continue_or_fix", "Ok") =>
        /\ bundle = last.before
        /\ log = <<>>

C5_Witness == Did("continue_or_fix", "Ok") /\ is_ok(bundle)

\* C6: update(p) on an Ok bundle gives Ok when apply succeeds and Err when it
\* fails, and the bundle holds the request it held before: the same original
\* URL, and nothing but the lazy parse done on it.
C6_UpdateKeepsRequest ==
    Did("update", "Ok") =>
        LET call == log[Len(log)]
            a == apply(apply_ok, "Ok", call.on, call.update)
        IN  /\ call.call = "apply"
            /\ call.on = last.before.result
            /\ bundle.tag = (IF a.ok THEN "Ok" ELSE "Err")
            /\ bundle.result = a.result
            /\ bundle.request.original_url = last.before.request.original_url
            /\ bundle.request \in
                 {last.before.request, RequestParsed(last.before.request)}

\* apply failed after the update of an Ok bundle with a non-empty URL.
C6_Witness ==
    /\ Did("update", "Ok")
    /\ bundle.tag = "Err"
    /\ Len(bundle.request.original_url) > 0

\* The operations that run a Process.
PipeOps == {"update", "fix", "continue_or_fix", "update_fixed"}

\* C14: the steps of a chain run in the order they are chained and do not
\* overlap: the calls of a step come in pairs, an exec and then the apply of
\* the update that exec produced to the value that exec read; the first exec
\* of a step reads the value the previous step left; and in update_fixed the
\* fixer's pair comes first and the process's exec reads the value the
\* fixer's apply produced.
C14_StepsInChainOrder ==
    [][(last'.op \in PipeOps /\ log' # <<>>) =>
          /\ Len(log') \in {2, 4}
          /\ \A i \in 1..Len(log') :
                IF i % 2 = 1 THEN log'[i].call = "exec"
                ELSE log'[i] = ApplyCall(log'[i - 1].kind, log'[i - 1].on, log'[i - 1].out)
          /\ log'[1].kind = bundle.tag
          /\ log'[1].on = bundle.result
          /\ Len(log') = 4 =>
                /\ last'.op = "update_fixed"
                /\ log'[1].who = "fix"
                /\ log'[3].who = "process"
                /\ log'[3].kind = "Ok"
                /\ log'[3].on = apply(apply_ok, "Err", log'[2].on, log'[2].update).result]_vars

\* The fixer recovered the bundle, the process ran on it and its update failed.
C14_Witness ==
    /\ Did("update_fixed", "Err")
    /\ Len(log) = 4
    /\ log[1].who = "fix"
    /\ log[3].who = "process"
    /\ bundle.tag = "Err"

\* C15: fix(f) on an Err bundle runs the fixer's exec once on the Err value,
\* applies the update it produced once to that same value, and returns Ok
\* with apply's Ok value or Err with apply's Err value, holding the request
\* the bundle held before (nothing but the lazy parse done on it).
C15_FixOnErr ==
    Did("fix", "Err") =>
        /\ Len(log) = 2
        /\ log[1] = ExecCall("fix", unwrap_err(last.before), log[1].out)
        /\ log[2] = ApplyCall("Err", last.before.result, log[1].out)
        /\ LET a == apply(apply_ok, "Err", last.before.result, log[1].out) IN
              /\ bundle.tag = (IF a.ok THEN "Ok" ELSE "Err")
              /\ bundle.result = a.result
        /\ bundle.request.original_url = last.before.request.original_url
        /\ bundle.request \in {last.before.request, RequestParsed(last.before.request)}

\* The fixer recovered the bundle to an Ok value other than the Err value.
C15_Witness ==
    /\ Did("fix", "Err")
    /\ is_ok(bundle)
    /\ bundle.result # last.before.result

\* The exec calls of the process in the calls of the last operation.
ProcessExecs == {i \in 1..Len(log) : log[i].call = "exec" /\ log[i].who = "process"}

\* C16: update_fixed(p, f), on a bundle in either state and whatever the
\* recovery gives, runs the exec of the process exactly once and applies
\* its update.
C16_ProcessAlwaysRuns ==
    last.op = "update_fixed" =>
        /\ Cardinality(ProcessExecs) = 1
        /\ \A i \in ProcessExecs :
              /\ i < Len(log)
              /\ log[i + 1] = ApplyCall("Ok", log[i].on, log[i].out)

\* C20: update(p) on an Err bundle and fix(f) on an Ok bundle panic before
\* any exec or apply is called.
C20_MisuseHasNoEffect ==
    (Did("update", "Err") \/ Did("fix", "Ok")) =>
        /\ bundle.tag = "Panic"
        /\ log = <<>>

C20_Witness ==
    /\ Did("update", "Err")
    /\ bundle.tag = "Panic"
    /\ log = <<>>

----------------------------------------------------------------------------
(* Properties of the dispatch *)

\* The index of the first RouteMatch from i on whose pattern matches text, 0 if none.
RECURSIVE FirstMatch(_, _, _)
FirstMatch(a, text, i) ==
    IF i > Len(a) THEN 0
    ELSE IF is_match(a[i].regex, text) THEN i
    ELSE FirstMatch(a, text, i + 1)

\* C7: handle_for returns the handler of the first RouteMatch whose pattern
\* matches the path of the request, None when no pattern matches, and
\* nothing else.
C7_FirstMatchWins ==
    found.kind # "pending" =>
        LET i == FirstMatch(arr, BeforeQuery(req.original_url), 1) IN
        found = IF i = 0 THEN NoHandle ELSE SomeHandle(arr[i].handle)

====
